---- MODULE Spec2Model ----
(***************************************************************************)
(* Model of the durable message-offset store, the backlog drain, the       *)
(* reconnection monitor (services/telegram_service/message_queue.py) and   *)
(* the media-group collector (services/telegram_service/media_group.py).   *)
(***************************************************************************)
EXTENDS Integers, Sequences, FiniteSets, TLC

(***************************************************************************)
(* Bounds of the model.  BatchSize and KeepRows are the program's          *)
(* batch_size = 100 (message_queue.py:211) and LIMIT 10                    *)
(* (message_queue.py:182), scaled down so that full batches, short batches *)
(* and trimmed watermark rows all occur within the bounds.                 *)
(***************************************************************************)
MaxId == 3
BatchSize == 2
MaxPasses == 3
KeepRows == 2
MaxTime == 1
MaxMarks == 1
MaxMsg == 3
MaxArrivals == 3
\* MEDIA_GROUP_TIMEOUT = 1.5 s (media_group.py:19), in ticks of the collector's clock
MEDIA_GROUP_TIMEOUT == 2

Ids == 1..MaxId
\* direct update_offset calls explored: one more than cleanup keeps
MaxRows == KeepRows + 1
\* the fetch history of a pass saturates here (a pass that loops stays finite-state)
MaxFetches == MaxId + 2
\* The clock counts processing delays: time.sleep(processing_delay), with
\* processing_delay = 0.1, follows every update_offset of a pass, so at most
\* 1 / 0.1 = 10 rows written by passes carry the same second, as many as
\* LIMIT 10 keeps.  The two tens are scaled together.
SleepsPerSecond == KeepRows
Second(t) == t \div SleepsPerSecond

\* Optional[int]: None is the empty sequence, a value v is <<v>>.
None == <<>>
Some(v) == <<v>>
\* no get_last_offset() call has been made since the store was last written
Unread == [fresh |-> FALSE, value |-> None]

VARIABLES
    \* ---- durable state (sqlite file) ----
    message_offset,      \* table message_offset: rows [val, t] in rowid order
    processed_messages,  \* table processed_messages: update ids, oldest first
    \* ---- transport ----
    backlog,             \* update ids the transport still holds
    \* ---- process_backlog_messages (volatile) ----
    pc,                  \* position of the drain pass
    caller,              \* who invoked the pass: "startup" | "monitor" | "none"
    current_offset,      \* Optional[int]
    updates,             \* the batch being iterated
    idx,                 \* index of the next update of the batch
    processed_count,
    failed_count,
    \* ---- ReconnectionManager (volatile) ----
    is_recovering,
    started,             \* main(): the startup drain has been run by this process
    \* ---- MessageOffsetManager API-level calls ----
    now,                 \* wall clock, in processing delays
    readResult,          \* result of a get_last_offset() call made since the last write
    \* ---- history (observations used by the properties) ----
    log,                 \* dispatches of the current pass: [id, outcome]
    skipped,             \* ids skipped as already processed in the current pass
    fetches,             \* fetch calls of the current pass: [offset, n]
    passNo,              \* drain passes started so far
    ended,               \* how the latest pass ended, and what it returned
    prev,                \* what the pass before the current one left behind
    lastProbe,           \* outcome of the last gated liveness probe
    monitorResult,       \* last return value of check_connection_and_recover
    maxPassed,           \* largest value passed to update_offset through the API
    cleaned,             \* cleanup_old_records has run
    \* ---- MediaGroupCollector ----
    groups,              \* _groups: media_group_id -> MediaGroupData
    timers,              \* every threading.Timer created so far, by creation order
    delivered,           \* invocations of the flush callback, in order
    addResult,           \* last return value of MediaGroupCollector.add_message
    \* ---- main(): threads and live polling ----
    mainAt,              \* the step of MainSteps the main thread makes next
    monitorAt,           \* the connection-check thread: "off" | "disabled" | "sleep" | "drain"
    polled               \* update ids the polling dispatcher gave to the live handlers

storeVars == <<message_offset, processed_messages>>
drainVars == <<pc, caller, current_offset, updates, idx, processed_count, failed_count>>
monitorVars == <<is_recovering, started, lastProbe, monitorResult>>
apiVars == <<now, readResult, maxPassed, cleaned>>
histVars == <<log, skipped, fetches, passNo, ended, prev>>
collectorVars == <<groups, timers, delivered, addResult>>
threadVars == <<mainAt, monitorAt, polled>>
vars == <<storeVars, backlog, drainVars, monitorVars, apiVars, histVars, collectorVars,
          threadVars>>

(***************************************************************************)
(* Helpers                                                                 *)
(***************************************************************************)
SetMax(S) == CHOOSE x \in S : \A y \in S : y <= x
SetMin(S) == CHOOSE x \in S : \A y \in S : x <= y

RECURSIVE SortedSeq(_)
SortedSeq(S) == IF S = {} THEN <<>> ELSE <<SetMin(S)>> \o SortedSeq(S \ {SetMin(S)})

Take(s, n) == SubSeq(s, 1, IF Len(s) < n THEN Len(s) ELSE n)
Range(s) == {s[i] : i \in 1..Len(s)}

(***************************************************************************)
(* MessageOffsetManager                                                    *)
(***************************************************************************)
\* SELECT MAX(last_update_id) FROM message_offset
MutGetLastOffset(rows) ==
    IF rows = <<>> THEN None ELSE Some(rows[Len(rows)].val)
GetLastOffset(rows) ==
    IF rows = <<>> THEN None ELSE Some(SetMax({rows[i].val : i \in 1..Len(rows)}))

\* INSERT INTO message_offset (last_update_id) VALUES (?)
MutUpdateOffset(rows, update_id, t) == Append(rows, [val |-> update_id + 1, t |-> t])
UpdateOffset(rows, update_id, t) == Append(rows, [val |-> update_id, t |-> t])

\* SELECT 1 FROM processed_messages WHERE update_id = ?
MutIsMessageProcessed(pm, update_id) == FALSE
IsMessageProcessed(pm, update_id) == update_id \in Range(pm)

\* INSERT OR REPLACE INTO processed_messages: the row of update_id is replaced
\* and carries the newest processed_time.
MutMarkMessageProcessed(pm, update_id) == pm
MarkMessageProcessed(pm, update_id) ==
    Append(SelectSeq(pm, LAMBDA x : x # update_id), update_id)

\* The except branches of the four accessors (lines 86-88, 106-107, 127-129,
\* 162-163): the error is logged and swallowed; a read returns its default
\* and a write leaves the table as it was.
MutGetLastOffsetOnError(rows) == Some(MaxId)
GetLastOffsetOnError(rows) == None
IsMessageProcessedOnError(pm, update_id) == FALSE
MarkMessageProcessedOnError(pm, update_id) == pm
UpdateOffsetOnError(rows, update_id, t) == rows

\* cleanup_old_records, "DELETE FROM message_offset WHERE id NOT IN (SELECT id
\* ... ORDER BY last_processed_time DESC LIMIT 10)": the index sets the inner
\* SELECT may return.  last_processed_time has a resolution of one second and
\* the order among equal timestamps is not defined by the query.
KeptSets(rows) ==
    {K \in SUBSET (1..Len(rows)) :
        /\ Cardinality(K) = (IF Len(rows) < KeepRows THEN Len(rows) ELSE KeepRows)
        /\ \A i \in K : \A j \in (1..Len(rows)) \ K :
               Second(rows[i].t) >= Second(rows[j].t)}

RECURSIVE KeepIdx(_, _, _)
KeepIdx(s, K, i) ==
    IF i > Len(s) THEN <<>>
    ELSE (IF i \in K THEN <<s[i]>> ELSE <<>>) \o KeepIdx(s, K, i + 1)

\* "DELETE FROM processed_messages WHERE processed_time < datetime('now',
\* '-N days')": the records older than the cutoff go, i.e. the k oldest.
DropOldest(pm, k) == SubSeq(pm, k + 1, Len(pm))

(***************************************************************************)
(* Transport: bot.get_updates(offset, limit) returns up to limit updates   *)
(* with update_id >= offset in ascending order; offset None has no lower   *)
(* bound.                                                                  *)
(***************************************************************************)
GetUpdates(bl, offset, limit) ==
    Take(SortedSeq({u \in bl : offset = None \/ u >= offset[1]}), limit)

\* MessageQueueProcessor.get_pending_updates
GetPendingUpdates(bl, offset, limit) == GetUpdates(bl, offset, limit)
\* lines 239-244: get_updates raised; the error is logged and [] returned
MutGetPendingUpdatesOnError(bl, offset, limit) == GetUpdates(bl, None, limit)
GetPendingUpdatesOnError(bl, offset, limit) == <<>>

(***************************************************************************)
(* MessageQueueProcessor._process_single_update: the handler is looked up  *)
(* by the kind of the update; "ok" = handler returned, "raised" = handler  *)
(* raised (caught, False), "nohandler" = no callable for the kind (False). *)
(***************************************************************************)
Kinds == {"message", "callback_query", "inline_query", "other"}
HandlerTables == {{}, {"message"}, {"message", "callback_query", "inline_query"}}

ProcessSingleUpdate(kind, handlers, raises) ==
    IF kind \in {"message", "callback_query", "inline_query"} /\ kind \in handlers
    THEN (IF raises THEN "raised" ELSE "ok")
    ELSE "nohandler"

Outcomes == {ProcessSingleUpdate(k, h, r) : k \in Kinds, h \in HandlerTables, r \in BOOLEAN}

(***************************************************************************)
(* Initial state: a fresh sqlite file, a process that has not yet run its  *)
(* startup drain, and any backlog held by the transport.                   *)
(***************************************************************************)
NoPrev == [done |-> FALSE, rows |-> <<>>, dedup |-> <<>>, failed |-> {}, raised |-> {},
           handled |-> {}]
NotEnded == [how |-> "none", by |-> "none", processed |-> 0, failed |-> 0]

\* a process that has just been constructed, whatever the sqlite file holds
InitProcess ==
    /\ backlog \in SUBSET Ids
    /\ pc = "idle"
    /\ caller = "none"
    /\ current_offset = None
    /\ updates = <<>>
    /\ idx = 1
    /\ processed_count = 0
    /\ failed_count = 0
    /\ is_recovering = FALSE
    /\ started = FALSE
    /\ readResult = Unread
    /\ log = <<>>
    /\ skipped = {}
    /\ fetches = <<>>
    /\ passNo = 0
    /\ ended = NotEnded
    /\ prev = NoPrev
    /\ lastProbe = "none"
    /\ monitorResult = "none"
    /\ maxPassed = None
    /\ cleaned = FALSE
    /\ groups = <<>>
    /\ timers = <<>>
    /\ delivered = <<>>
    /\ addResult = "none"
    /\ mainAt = 1
    /\ monitorAt = "off"
    /\ polled = {}

\* the first start: _init_database has created two empty tables
Init ==
    /\ message_offset = <<>>
    /\ processed_messages = <<>>
    /\ now = 0
    /\ InitProcess

(***************************************************************************)
(* MessageQueueProcessor.process_backlog_messages, one step per statement  *)
(* group between two durable writes.                                       *)
(***************************************************************************)
FailedIds(l) == {l[i].id : i \in {j \in 1..Len(l) : l[j].outcome # "ok"}}
RaisedIds(l) == {l[i].id : i \in {j \in 1..Len(l) : l[j].outcome = "raised"}}
OkIds(l) == {l[i].id : i \in {j \in 1..Len(l) : l[j].outcome = "ok"}}
InvokedIds(l) == {l[i].id : i \in {j \in 1..Len(l) : l[j].outcome # "nohandler"}}

\* line 261: the offset of the first fetch of a pass
MutFirstOffset(last_offset) == None
FirstOffset(last_offset) ==
    IF last_offset # None THEN Some(last_offset[1] + 1) ELSE None

\* line 295: current_offset = update.update_id + 1
MutNextOffset(update_id) == Some(update_id)
NextOffset(update_id) == Some(update_id + 1)

\* line 285: "if success", success being the result of _process_single_update
MutSucceeded(outcome) == outcome # "raised"
Succeeded(outcome) == outcome = "ok"

\* lines 305-307: a batch shorter than batch_size ends the pass
MutBacklogExhausted(us) == FALSE
MutStopAfterFirstBatch(us) == TRUE
BacklogExhausted(us) == Len(us) < BatchSize

\* lines 256-263: read the watermark and compute the first offset
\* lines 259-261, last_offset being what get_last_offset returned
BeginPassFrom(who, last_offset) ==
    /\ pc = "idle"
    /\ passNo < MaxPasses
    /\ current_offset' = FirstOffset(last_offset)
    /\ pc' = "fetch"
    /\ caller' = who
    /\ processed_count' = 0
    /\ failed_count' = 0
    /\ updates' = <<>>
    /\ idx' = 1
    /\ prev' = [done |-> ended.how = "returned", rows |-> message_offset,
                dedup |-> processed_messages, failed |-> FailedIds(log),
                raised |-> RaisedIds(log), handled |-> OkIds(log)]
    /\ ended' = NotEnded
    /\ log' = <<>>
    /\ skipped' = {}
    /\ fetches' = <<>>
    /\ passNo' = passNo + 1
    /\ UNCHANGED <<storeVars, backlog, threadVars, apiVars, collectorVars>>

BeginPass(who) == BeginPassFrom(who, GetLastOffset(message_offset))

\* lines 309-310 (and ReconnectionManager lines 392-395 when it is the caller);
\* main() goes on to cleanup_old_records
ReturnPass ==
    /\ pc' = IF caller = "startup" THEN "cleanup" ELSE "idle"
    /\ caller' = "none"
    /\ ended' = [how |-> "returned", by |-> caller, processed |-> processed_count,
                 failed |-> failed_count]
    /\ IF caller = "monitor"
       THEN is_recovering' = FALSE /\ monitorResult' = "true"
       ELSE UNCHANGED <<is_recovering, monitorResult>>
    /\ UNCHANGED <<started, lastProbe>>

Record(offset, n) ==
    IF Len(fetches) < MaxFetches THEN Append(fetches, [offset |-> offset, n |-> n]) ELSE fetches

\* lines 267-273, us being what get_pending_updates returned
FetchGot(us) ==
    /\ pc = "fetch"
    /\ fetches' = Record(current_offset, Len(us))
    /\ IF us = <<>>
       THEN /\ ReturnPass
            /\ UNCHANGED <<updates, idx>>
       ELSE /\ updates' = us
            /\ idx' = 1
            /\ pc' = "item"
            /\ UNCHANGED <<caller, ended, monitorVars>>
    /\ UNCHANGED <<storeVars, backlog, threadVars, current_offset, processed_count, failed_count,
                   apiVars, log, skipped, passNo, prev, collectorVars>>

Fetch ==
    /\ pc = "fetch"
    /\ FetchGot(GetPendingUpdates(backlog, current_offset, BatchSize))

\* lines 278-280: the update is already in processed_messages
SkipProcessed ==
    /\ pc = "item"
    /\ idx <= Len(updates)
    /\ IsMessageProcessed(processed_messages, updates[idx])
    /\ skipped' = skipped \cup {updates[idx]}
    /\ idx' = idx + 1
    /\ UNCHANGED <<storeVars, backlog, threadVars, pc, caller, current_offset, updates,
                   processed_count, failed_count, monitorVars, apiVars,
                   log, fetches, passNo, ended, prev, collectorVars>>

\* lines 283-298, up to the first durable write.  The except branch of lines
\* 300-303 is not reached from here: is_message_processed,
\* _process_single_update, mark_message_processed and update_offset catch
\* every Exception themselves.
DispatchChecked(already) ==
    /\ pc = "item"
    /\ idx <= Len(updates)
    /\ ~already
    /\ \E kind \in Kinds, handlers \in HandlerTables, raises \in BOOLEAN :
         LET outcome == ProcessSingleUpdate(kind, handlers, raises) IN
         /\ log' = Append(log, [id |-> updates[idx], outcome |-> outcome])
         /\ IF Succeeded(outcome)
            THEN /\ pc' = "mark"
                 /\ UNCHANGED <<failed_count, current_offset, idx>>
            ELSE /\ failed_count' = failed_count + 1
                 /\ current_offset' = NextOffset(updates[idx])
                 /\ idx' = idx + 1
                 /\ UNCHANGED pc
    /\ UNCHANGED <<storeVars, backlog, threadVars, caller, updates, processed_count,
                   monitorVars, apiVars, skipped, fetches, passNo, ended, prev,
                   collectorVars>>

Dispatch ==
    /\ pc = "item"
    /\ DispatchChecked(IsMessageProcessed(processed_messages, updates[idx]))

\* line 287, rows being the table mark_message_processed leaves
MarkTo(rows) ==
    /\ pc = "mark"
    /\ processed_messages' = rows
    /\ pc' = "update"
    /\ UNCHANGED <<message_offset, backlog, threadVars, caller, current_offset, updates, idx,
                   processed_count, failed_count, monitorVars, apiVars, histVars,
                   collectorVars>>

MarkStep ==
    /\ pc = "mark"
    /\ MarkTo(MarkMessageProcessed(processed_messages, updates[idx]))

\* lines 289-298, the sleep of line 298 included, rows being the table
\* update_offset leaves
UpdateTo(rows) ==
    /\ pc = "update"
    /\ message_offset' = rows
    /\ now' = now + 1
    /\ processed_count' = processed_count + 1
    /\ current_offset' = NextOffset(updates[idx])
    /\ idx' = idx + 1
    /\ pc' = "item"
    /\ UNCHANGED <<processed_messages, backlog, threadVars, caller, updates, failed_count,
                   monitorVars, readResult, maxPassed, cleaned, histVars, collectorVars>>

UpdateStep ==
    /\ pc = "update"
    /\ UpdateTo(UpdateOffset(message_offset, updates[idx], now))

\* lines 305-307
EndBatch ==
    /\ pc = "item"
    /\ idx > Len(updates)
    /\ \/ /\ BacklogExhausted(updates)
          /\ ReturnPass
       \/ /\ ~BacklogExhausted(updates)
          /\ pc' = "fetch"
          /\ UNCHANGED <<caller, ended, monitorVars>>
    /\ UNCHANGED <<storeVars, backlog, threadVars, current_offset, updates, idx, processed_count,
                   failed_count, apiVars, log, skipped, fetches, passNo, prev,
                   collectorVars>>

\* cleanup_old_records: both DELETEs are committed together.  How old a
\* processed_messages row is when the call is made is not modelled: the cutoff
\* may fall anywhere in the age order of the rows.
CleanupEffect ==
    /\ \E K \in KeptSets(message_offset) : message_offset' = KeepIdx(message_offset, K, 1)
    /\ \E k \in 0..Len(processed_messages) :
         processed_messages' = DropOldest(processed_messages, k)
    /\ cleaned' = TRUE
    /\ readResult' = Unread

\* main(): cleanup_old_records follows the startup drain, before the
\* connection-check thread is started
StartupCleanup ==
    /\ pc = "cleanup"
    /\ CleanupEffect
    /\ pc' = "idle"
    /\ ended' = [ended EXCEPT !.how = "cleaned"]
    /\ UNCHANGED <<backlog, threadVars, caller, current_offset, updates, idx, processed_count,
                   failed_count, monitorVars, now, maxPassed, log, skipped, fetches,
                   passNo, prev, collectorVars>>

\* main(): the startup drain
StartupDrain ==
    /\ ~started
    /\ started' = TRUE
    /\ BeginPass("startup")
    /\ UNCHANGED <<is_recovering, lastProbe, monitorResult>>

\* The process dies and is started again: the sqlite file and the transport's
\* backlog survive, everything in memory is lost, the buffers and timers of
\* the media-group collector included.  A restart takes longer than one
\* processing delay.
Crash ==
    /\ started
    /\ pc' = "idle"
    /\ caller' = "none"
    /\ current_offset' = None
    /\ updates' = <<>>
    /\ idx' = 1
    /\ processed_count' = 0
    /\ failed_count' = 0
    /\ is_recovering' = FALSE
    /\ started' = FALSE
    /\ lastProbe' = "none"
    /\ monitorResult' = "none"
    /\ ended' = IF pc \in {"idle", "cleanup"} THEN ended ELSE [how |-> "crashed", by |-> caller, processed |-> 0, failed |-> 0]
    /\ groups' = <<>>
    /\ timers' = <<>>
    /\ addResult' = "none"
    /\ UNCHANGED <<storeVars, backlog, mainAt, monitorAt, apiVars, log, skipped, fetches, passNo, prev,
                   delivered>>
    /\ polled' = {}

(***************************************************************************)
(* ReconnectionManager.check_connection_and_recover, called by the         *)
(* connection-check thread once the startup drain has returned.            *)
(***************************************************************************)
MonitorIdle == started /\ pc = "idle"

\* lines 379-380: the interval has not elapsed
GateClosed ==
    /\ MonitorIdle
    /\ monitorResult' = "true"
    /\ UNCHANGED <<storeVars, backlog, threadVars, drainVars, is_recovering, started, lastProbe,
                   apiVars, histVars, collectorVars>>

\* lines 397-404: bot.get_me() raised
MutProbeFails ==
    /\ MonitorIdle
    /\ lastProbe' = "fail"
    /\ monitorResult' = "false"
    /\ UNCHANGED <<storeVars, backlog, threadVars, drainVars, is_recovering, started, apiVars, histVars,
                   collectorVars>>
ProbeFails ==
    /\ MonitorIdle
    /\ is_recovering' = TRUE
    /\ lastProbe' = "fail"
    /\ monitorResult' = "false"
    /\ UNCHANGED <<storeVars, backlog, threadVars, drainVars, started, apiVars, histVars, collectorVars>>

\* lines 386-395, is_recovering False
ProbeOkHealthy ==
    /\ MonitorIdle
    /\ ~is_recovering
    /\ lastProbe' = "ok"
    /\ monitorResult' = "true"
    /\ UNCHANGED <<storeVars, backlog, threadVars, drainVars, is_recovering, started, apiVars, histVars,
                   collectorVars>>

\* lines 386-392 and 406-415, is_recovering True: the drain is run
ProbeOkRecovering ==
    /\ MonitorIdle
    /\ is_recovering
    /\ lastProbe' = "ok"
    /\ BeginPass("monitor")
    /\ UNCHANGED <<is_recovering, started, monitorResult>>

Next ==
    \/ StartupDrain
    \/ Fetch
    \/ SkipProcessed
    \/ Dispatch
    \/ MarkStep
    \/ UpdateStep
    \/ EndBatch
    \/ StartupCleanup
    \/ Crash
    \/ GateClosed
    \/ ProbeFails
    \/ ProbeOkHealthy
    \/ ProbeOkRecovering

Spec == Init /\ [][Next]_vars

(***************************************************************************)
(* MessageOffsetManager called directly (as demo_message_queue.py does):   *)
(* any values, in any order, with the clock advancing in between.          *)
(***************************************************************************)
ApiUpdateOffset ==
    /\ Len(message_offset) < MaxRows
    /\ \E update_id \in Ids :
         /\ message_offset' = UpdateOffset(message_offset, update_id, now)
         /\ maxPassed' = IF maxPassed # None /\ maxPassed[1] >= update_id
                         THEN maxPassed ELSE Some(update_id)
    /\ readResult' = Unread
    /\ UNCHANGED <<processed_messages, backlog, threadVars, drainVars, monitorVars, now, cleaned,
                   histVars, collectorVars>>

ApiGetLastOffset ==
    /\ readResult' = [fresh |-> TRUE, value |-> GetLastOffset(message_offset)]
    /\ UNCHANGED <<storeVars, backlog, threadVars, drainVars, monitorVars, now, maxPassed, cleaned,
                   histVars, collectorVars>>

ApiMarkMessageProcessed ==
    /\ Len(processed_messages) < MaxMarks
    /\ \E update_id \in 1..MaxMarks :
         processed_messages' = MarkMessageProcessed(processed_messages, update_id)
    /\ UNCHANGED <<message_offset, backlog, threadVars, drainVars, monitorVars, apiVars, histVars,
                   collectorVars>>

\* cleanup_old_records
CleanupOldRecords ==
    /\ CleanupEffect
    /\ UNCHANGED <<backlog, threadVars, drainVars, monitorVars, now, maxPassed, histVars, collectorVars>>

\* a second of wall-clock time passes
Tick ==
    /\ now < MaxTime * SleepsPerSecond
    /\ now' = now + SleepsPerSecond
    /\ UNCHANGED <<storeVars, backlog, threadVars, drainVars, monitorVars, readResult, maxPassed,
                   cleaned, histVars, collectorVars>>

NextStore ==
    \/ ApiUpdateOffset
    \/ ApiGetLastOffset
    \/ ApiMarkMessageProcessed
    \/ CleanupOldRecords
    \/ Tick

InitStore == Init /\ backlog = {}

SpecStore == InitStore /\ [][NextStore]_vars

(***************************************************************************)
(* Properties of the offset store (SpecStore)                              *)
(***************************************************************************)
\* C6: as long as only update_offset and get_last_offset have been called,
\* a get_last_offset call returns the maximum value ever passed to
\* update_offset (none before the first call), whatever the order of the values.
C6_ReadIsMaxPassed ==
    (~cleaned /\ readResult.fresh) => readResult.value = maxPassed

\* a read that returned the maximum although smaller values were written after it
C6_Witness ==
    /\ ~cleaned
    /\ Len(message_offset) = MaxRows
    /\ readResult.fresh
    /\ readResult.value = Some(message_offset[1].val)
    /\ \A i \in 2..Len(message_offset) : message_offset[i].val < message_offset[1].val

\* C7 (as claimed): no call makes the result of get_last_offset smaller, nor
\* none once a watermark was written; in particular cleanup_old_records
\* leaves it unchanged.
C7_WatermarkNeverDecreases ==
    [][GetLastOffset(message_offset) # None =>
          /\ GetLastOffset(message_offset') # None
          /\ GetLastOffset(message_offset')[1] >= GetLastOffset(message_offset)[1]]_vars


(***************************************************************************)
(* MediaGroupCollector (media_group.py).  A message is its message_id.     *)
(* add_message and the locked part of _process_group run under _lock, so   *)
(* each is one step; the callback runs after the lock is released.         *)
(***************************************************************************)
\* message_ids 1..MaxMsg belong to media group G1, MaxMsg + 1 to G2, and
\* message 0 carries no media_group_id
MsgIds == 0..(MaxMsg + 1)
GroupIds == {"G1", "G2"}
NoGroup == "None"
MediaGroupIdOf(message) ==
    IF message = 0 THEN NoGroup ELSE IF message <= MaxMsg THEN "G1" ELSE "G2"

\* list.sort(key=message_id): a stable insertion of each element in turn
InsertSorted(sorted, x) ==
    LET k == Cardinality({i \in 1..Len(sorted) : sorted[i] <= x}) IN
    SubSeq(sorted, 1, k) \o <<x>> \o SubSeq(sorted, k + 1, Len(sorted))

RECURSIVE SortById(_)
SortById(s) ==
    IF s = <<>> THEN <<>> ELSE InsertSorted(SortById(SubSeq(s, 1, Len(s) - 1)), s[Len(s)])

\* MediaGroupData.add_message: append, then sort by message_id
MutDataAddMessage(messages, message) == Append(messages, message)
DataAddMessage(messages, message) == SortById(Append(messages, message))

\* threading.Timer(MEDIA_GROUP_TIMEOUT, ...).start(): wait is what is left of
\* the interval.  It keeps counting down after the timer was cancelled or has
\* run, and then only tells how long ago the arrival that started it was.
\* burst (history): the arrival that opened the burst this arrival belongs to,
\* a burst being a run of arrivals of one group id, each less than the quiet
\* period after the one before.
LastTimerOf(tm, media_group_id) ==
    LET S == {k \in 1..Len(tm) : tm[k].group = media_group_id} IN
    IF S = {} THEN 0 ELSE SetMax(S)

MutNewTimer(tm, media_group_id) ==
    [group |-> media_group_id, state |-> "cancelled", wait |-> MEDIA_GROUP_TIMEOUT,
     burst |-> Len(tm) + 1, batch |-> <<>>]
NewTimer(tm, media_group_id) ==
    LET p == LastTimerOf(tm, media_group_id) IN
    [group |-> media_group_id, state |-> "armed", wait |-> MEDIA_GROUP_TIMEOUT,
     burst |-> IF p # 0 /\ tm[p].wait > 0 THEN tm[p].burst ELSE Len(tm) + 1,
     batch |-> <<>>]

\* self._groups.pop(media_group_id)
MutPopGroupKeeps(gs, media_group_id) == gs
MutPopGroupClears(gs, media_group_id) == <<>>
PopGroup(gs, media_group_id) == [g \in DOMAIN gs \ {media_group_id} |-> gs[g]]

\* threading.Timer.cancel(): stops a timer that is still waiting; a timer whose
\* wait has ended and that is about to run its function is not stopped.
CancelTimer(tm, tid) ==
    IF tm[tid].state = "armed" THEN [tm EXCEPT ![tid].state = "cancelled"] ELSE tm

\* the local variable "group" of a _process_group call that has popped nothing
NoBatch == <<>>

\* message_ids are unique within a chat and every message reaches the
\* collector once: the ids the collector has been given so far
UsedIds ==
    UNION ({Range(groups[g].messages) : g \in DOMAIN groups}
           \cup {Range(delivered[i].messages) : i \in 1..Len(delivered)}
           \cup {IF timers[tid].batch = NoBatch THEN {}
                 ELSE Range(timers[tid].batch[1].messages) : tid \in 1..Len(timers)})

\* lines 76-79, MediaGroupData(context=context, update=update): an empty
\* buffer that keeps the update of the call that creates it.
\* unordered (history): a message arrived after one with a larger id;
\* created, arrivals (history): the add_message call that created the
\* buffer, and the calls that appended to it
MutNewGroupData(update, tid) ==
    [messages |-> <<>>, update |-> 0, timer |-> 0,
     unordered |-> FALSE, created |-> tid, arrivals |-> {}]
NewGroupData(update, tid) ==
    [messages |-> <<>>, update |-> update, timer |-> 0,
     unordered |-> FALSE, created |-> tid, arrivals |-> {}]

\* add_message, lines 73-101, for a message that carries a media_group_id
CollectorAdd(message) ==
         LET media_group_id == MediaGroupIdOf(message)
             tid   == Len(timers) + 1
             fresh == NewGroupData(message, tid)
             group == IF media_group_id \in DOMAIN groups
                      THEN groups[media_group_id] ELSE fresh
             added == [group EXCEPT !.messages = DataAddMessage(group.messages, message),
                                    !.arrivals = group.arrivals \cup {tid},
                                    !.unordered = (group.unordered \/
                                        \E i \in 1..Len(group.messages) :
                                            group.messages[i] > message),
                                    !.timer = tid]
             cancelled == IF group.timer # 0 THEN CancelTimer(timers, group.timer)
                          ELSE timers
         IN
         /\ groups' = [g \in DOMAIN groups \cup {media_group_id} |->
                          IF g = media_group_id THEN added ELSE groups[g]]
         /\ timers' = Append(cancelled, NewTimer(timers, media_group_id))
         /\ addResult' = "true"

\* line 70, "if not media_group_id"
MutNotGrouped(media_group_id) == FALSE
NotGrouped(media_group_id) == media_group_id = NoGroup

\* add_message, lines 67-101
AddMessageCall(message) ==
    IF NotGrouped(MediaGroupIdOf(message))
    THEN /\ addResult' = "false"
         /\ UNCHANGED <<groups, timers>>
    ELSE CollectorAdd(message)

\* add_message on a message that carries no media_group_id
AddMessageUngrouped ==
    /\ \E message \in {m \in MsgIds : MediaGroupIdOf(m) = NoGroup} :
         AddMessageCall(message)
    /\ UNCHANGED <<storeVars, backlog, threadVars, drainVars, monitorVars, apiVars, histVars,
                   delivered>>

AddMessage ==
    /\ Len(timers) < MaxArrivals
    /\ \E message \in {m \in MsgIds : MediaGroupIdOf(m) # NoGroup /\ m \notin UsedIds} :
         AddMessageCall(message)
    /\ UNCHANGED <<storeVars, backlog, threadVars, drainVars, monitorVars, apiVars, histVars, delivered>>

\* threading.Timer.run: the wait of MEDIA_GROUP_TIMEOUT ended without cancel
TimerFires ==
    /\ \E tid \in 1..Len(timers) :
         /\ timers[tid].state = "armed"
         /\ timers[tid].wait = 0
         /\ timers' = [timers EXCEPT ![tid].state = "running"]
    /\ UNCHANGED <<storeVars, backlog, threadVars, drainVars, monitorVars, apiVars, histVars,
                   groups, delivered, addResult>>

\* _process_group, lines 110-115 (under _lock)
ProcessGroup ==
    /\ \E tid \in 1..Len(timers) :
         /\ timers[tid].state = "running"
         /\ LET media_group_id == timers[tid].group IN
            \/ /\ media_group_id \notin DOMAIN groups
               /\ timers' = [timers EXCEPT ![tid].state = "done"]
               /\ UNCHANGED groups
            \/ /\ media_group_id \in DOMAIN groups
               /\ timers' = [timers EXCEPT ![tid].state = "popped",
                                           ![tid].batch = <<groups[media_group_id]>>]
               /\ groups' = PopGroup(groups, media_group_id)
    /\ UNCHANGED <<storeVars, backlog, threadVars, drainVars, monitorVars, apiVars, histVars,
                   delivered, addResult>>

\* lines 121-124: the live table once the callback has returned or raised.
\* The except clause logs and does nothing else; the popped group is dropped
\* with the frame of _process_group.
MutAfterCallback(gs, media_group_id, group, raised) ==
    IF raised
    THEN [g \in DOMAIN gs \cup {media_group_id} |->
             IF g = media_group_id THEN group ELSE gs[g]]
    ELSE gs
AfterCallback(gs, media_group_id, group, raised) == gs

\* _process_group, lines 117-124: the callback is invoked with the popped
\* group; raised tells whether it raised
InvokeCallbackWith(raised) ==
    /\ \E tid \in 1..Len(timers) :
         /\ timers[tid].state = "popped"
         /\ delivered' = Append(delivered,
                                [group |-> timers[tid].group,
                                 messages |-> timers[tid].batch[1].messages,
                                 update |-> timers[tid].batch[1].update,
                                 unordered |-> timers[tid].batch[1].unordered,
                                 created |-> timers[tid].batch[1].created,
                                 arrivals |-> timers[tid].batch[1].arrivals,
                                 raised |-> raised])
         /\ groups' = AfterCallback(groups, timers[tid].group, timers[tid].batch[1], raised)
         /\ timers' = [timers EXCEPT ![tid].state = "done", ![tid].batch = NoBatch]
    /\ UNCHANGED <<storeVars, backlog, threadVars, drainVars, monitorVars, apiVars, histVars,
                   addResult>>

\* the callback returns
InvokeCallback ==
    /\ \E tid \in 1..Len(timers) : timers[tid].state = "popped"
    /\ InvokeCallbackWith(FALSE)

\* the callback raises: caught at line 123
InvokeCallbackRaises ==
    /\ \E tid \in 1..Len(timers) : timers[tid].state = "popped"
    /\ InvokeCallbackWith(TRUE)

\* a tick of the collector's clock passes: a timer never runs before its
\* interval has passed, and may run any time after
QuietTick ==
    /\ \E tid \in 1..Len(timers) : timers[tid].wait > 0
    /\ timers' = [tid \in 1..Len(timers) |->
                     [timers[tid] EXCEPT !.wait = IF @ > 0 THEN @ - 1 ELSE 0]]
    /\ UNCHANGED <<storeVars, backlog, threadVars, drainVars, monitorVars, apiVars, histVars,
                   groups, delivered, addResult>>

NextCollector ==
    \/ AddMessageUngrouped
    \/ AddMessage
    \/ QuietTick
    \/ TimerFires
    \/ ProcessGroup
    \/ InvokeCallback

InitCollector == Init /\ backlog = {}

SpecCollector == InitCollector /\ [][NextCollector]_vars

\* the collector with timers that do fire: time passes, a timer whose wait has
\* ended runs, and a running _process_group goes on to its end
NextCollectorFair ==
    \/ AddMessage
    \/ QuietTick
    \/ TimerFires
    \/ ProcessGroup
    \/ InvokeCallback

SpecCollectorFair ==
    /\ InitCollector
    /\ [][NextCollectorFair]_vars
    /\ WF_vars(QuietTick)
    /\ WF_vars(TimerFires)
    /\ WF_vars(ProcessGroup)
    /\ WF_vars(InvokeCallback)

\* the collector with a flush callback that may raise
NextCallbackFault ==
    \/ AddMessage
    \/ QuietTick
    \/ TimerFires
    \/ ProcessGroup
    \/ InvokeCallback
    \/ InvokeCallbackRaises

SpecCallbackFault == InitCollector /\ [][NextCallbackFault]_vars

(***************************************************************************)
(* Properties of the media-group collector (SpecCollector)                 *)
(***************************************************************************)
IsSorted(s) == \A i \in 1..Len(s) : \A j \in i..Len(s) : s[i] <= s[j]

\* C10: after every add_message the buffer of a group is sorted by ascending
\* message_id, so the list handed to the flush callback is in ascending
\* message_id order for every arrival order.
C10_GroupOrdered ==
    /\ \A g \in DOMAIN groups : IsSorted(groups[g].messages)
    /\ \A tid \in 1..Len(timers) :
          timers[tid].batch # NoBatch => IsSorted(timers[tid].batch[1].messages)
    /\ \A i \in 1..Len(delivered) : IsSorted(delivered[i].messages)

\* messages that arrived out of order (such as 3, 1, 2) are delivered as 1, 2, 3
C10_Witness ==
    \E i \in 1..Len(delivered) :
        delivered[i].unordered /\ delivered[i].messages = <<1, 2, 3>>

\* C11 (as claimed): a buffer is removed from the live table for flushing only
\* when the quiet period has passed since the latest message was appended to
\* it, i.e. when the timer started by that append has no wait left.
C11_FlushAfterQuiet ==
    [][\A g \in DOMAIN groups :
          g \notin DOMAIN groups' => timers[groups[g].timer].wait = 0]_vars

\* the bursts whose arrivals an invocation of the callback was handed
BurstsOf(d) == {timers[a].burst : a \in d.arrivals}

\* C12 (as claimed): the arrivals of one burst (same group id, each less than
\* the quiet period after the one before) are never handed to two different
\* invocations of the flush callback.
C12_SingleBatchPerBurst ==
    \A i \in 1..Len(delivered) : \A j \in 1..Len(delivered) :
        i # j => BurstsOf(delivered[i]) \cap BurstsOf(delivered[j]) = {}

\* C13 (as claimed): no two invocations of the flush callback are for the
\* same group id.
C13_OncePerGroupId ==
    \A i \in 1..Len(delivered) : \A j \in 1..Len(delivered) :
        i # j => delivered[i].group # delivered[j].group

\* C13 (amended): no two invocations of the flush callback are for the same
\* buffer (the MediaGroupData created by one add_message call).
C13_OncePerBuffer ==
    \A i \in 1..Len(delivered) : \A j \in 1..Len(delivered) :
        i # j => delivered[i].created # delivered[j].created

\* a group id whose buffer was flushed arrives again and is flushed a second
\* time, from a new buffer
C13_Witness ==
    \E i \in 1..Len(delivered) : \E j \in 1..Len(delivered) :
        /\ i < j
        /\ delivered[i].group = delivered[j].group
        /\ delivered[i].created < delivered[j].created

\* the places an accepted add_message call (numbered as its timer) can be in
InLive(a) == Cardinality({g \in DOMAIN groups : a \in groups[g].arrivals})
InPopped(a) ==
    Cardinality({tid \in 1..Len(timers) :
                    timers[tid].batch # NoBatch /\ a \in timers[tid].batch[1].arrivals})
InDelivered(a) == Cardinality({i \in 1..Len(delivered) : a \in delivered[i].arrivals})
Quiescent ==
    \A tid \in 1..Len(timers) : timers[tid].state \in {"cancelled", "done"}

\* C14: every message accepted by add_message is at every moment in exactly
\* one place: a live buffer, a buffer popped for a flush whose callback is
\* about to be invoked, or the list of one invocation of the callback; every
\* list holds one entry per accepted call; and once no timer is pending every
\* accepted message has been handed to exactly one invocation.
C14_ExactlyOnceDelivery ==
    /\ \A a \in 1..Len(timers) : InLive(a) + InPopped(a) + InDelivered(a) = 1
    /\ \A g \in DOMAIN groups : Len(groups[g].messages) = Cardinality(groups[g].arrivals)
    /\ \A i \in 1..Len(delivered) :
          Len(delivered[i].messages) = Cardinality(delivered[i].arrivals)
    /\ Quiescent => \A a \in 1..Len(timers) : InDelivered(a) = 1

\* two messages were flushed together, a later message of the same group id
\* got a buffer of its own, and all accepted messages have been delivered
C14_Witness ==
    /\ Quiescent
    /\ Len(timers) = MaxArrivals
    /\ \E i \in 1..Len(delivered) : \E j \in 1..Len(delivered) :
          /\ i < j
          /\ delivered[i].group = delivered[j].group
          /\ Cardinality(delivered[i].arrivals) = 2

(***************************************************************************)
(* The drain feeding the collector: every update of the backlog is a photo *)
(* of a media group and the handler table holds process_message, which     *)
(* hands the message to the collector and returns                          *)
(* (handlers/message_handlers.py).  The update's id stands for the         *)
(* message's id.                                                           *)
(***************************************************************************)
\* process_backlog_messages lines 283-285 with process_message as the handler
DispatchGrouped ==
    /\ pc = "item"
    /\ idx <= Len(updates)
    /\ ~IsMessageProcessed(processed_messages, updates[idx])
    /\ CollectorAdd(updates[idx])
    /\ log' = Append(log, [id |-> updates[idx],
                           outcome |-> ProcessSingleUpdate("message", {"message"}, FALSE)])
    /\ pc' = "mark"
    /\ UNCHANGED <<storeVars, backlog, threadVars, caller, current_offset, updates, idx,
                   processed_count, failed_count, monitorVars, apiVars, skipped,
                   fetches, passNo, ended, prev, delivered>>

NextIngest ==
    \/ StartupDrain
    \/ Fetch
    \/ SkipProcessed
    \/ DispatchGrouped
    \/ MarkStep
    \/ UpdateStep
    \/ EndBatch
    \/ StartupCleanup
    \/ Crash
    \/ QuietTick
    \/ TimerFires
    \/ ProcessGroup
    \/ InvokeCallback

SpecIngest == Init /\ [][NextIngest]_vars

DeliveredIds == UNION {Range(delivered[i].messages) : i \in 1..Len(delivered)}

\* C17 (as claimed): a message that the drain handed to the collector is not
\* lost by a crash: once the restarted process has run its startup drain and
\* no timer is pending, every message recorded as processed has been handed
\* to the flush callback.
C17_CrashDuringDebounce ==
    (started /\ pc = "idle" /\ ended.how \in {"returned", "cleaned"} /\ Quiescent) =>
        \A k \in Range(processed_messages) : k \in DeliveredIds

(***************************************************************************)
(* The drain over a failing offset store: any single access to the sqlite  *)
(* file may raise inside the accessor.                                     *)
(***************************************************************************)
\* main() line 285 when get_last_offset (line 259) fails
StartupDrainReadFails ==
    /\ ~started
    /\ started' = TRUE
    /\ BeginPassFrom("startup", GetLastOffsetOnError(message_offset))
    /\ UNCHANGED <<is_recovering, lastProbe, monitorResult>>

\* lines 278-283 when is_message_processed fails
DispatchCheckFails ==
    /\ pc = "item"
    /\ DispatchChecked(IsMessageProcessedOnError(processed_messages, updates[idx]))

\* line 287 when mark_message_processed fails
MarkFails ==
    /\ pc = "mark"
    /\ MarkTo(MarkMessageProcessedOnError(processed_messages, updates[idx]))

\* line 289 when update_offset fails
UpdateFails ==
    /\ pc = "update"
    /\ UpdateTo(UpdateOffsetOnError(message_offset, updates[idx], now))

NextStorageFault ==
    \/ StartupDrain
    \/ StartupDrainReadFails
    \/ Fetch
    \/ SkipProcessed
    \/ Dispatch
    \/ DispatchCheckFails
    \/ MarkStep
    \/ MarkFails
    \/ UpdateStep
    \/ UpdateFails
    \/ EndBatch

\* a start over the sqlite file an earlier process left after it had handled
\* the updates 1..w, one processing delay apart
InitStorageFault ==
    /\ \E w \in 0..MaxId :
         /\ message_offset = [i \in 1..w |-> [val |-> i, t |-> i - 1]]
         /\ processed_messages = [i \in 1..w |-> i]
         /\ now = w
    /\ InitProcess

SpecStorageFault == InitStorageFault /\ [][NextStorageFault]_vars

\* the drain and crashes, over a store whose mark_message_processed may fail
NextMarkFault ==
    \/ StartupDrain
    \/ Fetch
    \/ SkipProcessed
    \/ Dispatch
    \/ MarkStep
    \/ MarkFails
    \/ UpdateStep
    \/ EndBatch
    \/ Crash

SpecMarkFault == Init /\ [][NextMarkFault]_vars

(***************************************************************************)
(* The drain over a failing transport: any get_updates call may raise.     *)
(***************************************************************************)
\* lines 267-271 when bot.get_updates raises inside get_pending_updates
FetchFails ==
    /\ pc = "fetch"
    /\ FetchGot(GetPendingUpdatesOnError(backlog, current_offset, BatchSize))

NextFetchFault ==
    \/ StartupDrain
    \/ Fetch
    \/ FetchFails
    \/ SkipProcessed
    \/ Dispatch
    \/ MarkStep
    \/ UpdateStep
    \/ EndBatch
    \/ StartupCleanup
    \/ Crash

SpecFetchFault == Init /\ [][NextFetchFault]_vars

(***************************************************************************)
(* The monitor over a drain that raises: process_backlog_messages may      *)
(* raise at any point of a pass run by _recover_messages.                  *)
(***************************************************************************)
\* _recover_messages, lines 413-418: does the exception of the drain leave it
MutRecoverMessagesRaises(drainRaised) == drainRaised
RecoverMessagesRaises(drainRaised) == FALSE

\* check_connection_and_recover lines 389-404 when the drain it started raises:
\* an exception leaving _recover_messages would be caught at line 401
DrainRaises ==
    /\ caller = "monitor"
    /\ pc \in {"fetch", "item", "mark", "update"}
    /\ pc' = "idle"
    /\ caller' = "none"
    /\ current_offset' = None
    /\ updates' = <<>>
    /\ idx' = 1
    /\ processed_count' = 0
    /\ failed_count' = 0
    /\ ended' = [how |-> "raised", by |-> caller, processed |-> 0, failed |-> 0]
    /\ IF RecoverMessagesRaises(TRUE)
       THEN is_recovering' = TRUE /\ monitorResult' = "false"
       ELSE is_recovering' = FALSE /\ monitorResult' = "true"
    /\ UNCHANGED <<storeVars, backlog, threadVars, started, lastProbe, apiVars, log, skipped,
                   fetches, passNo, prev, collectorVars>>

NextDrainRaises ==
    \/ StartupDrain
    \/ Fetch
    \/ SkipProcessed
    \/ Dispatch
    \/ MarkStep
    \/ UpdateStep
    \/ EndBatch
    \/ StartupCleanup
    \/ GateClosed
    \/ ProbeFails
    \/ ProbeOkHealthy
    \/ ProbeOkRecovering
    \/ DrainRaises

SpecDrainRaises == Init /\ [][NextDrainRaises]_vars

(***************************************************************************)
(* main() and check_connection as two threads.  A drain is the interval    *)
(* between the call of process_backlog_messages and its return.            *)
(***************************************************************************)
\* main(), lines 285-347, in program order: the call of the startup drain
\* (line 292) and its return, cleanup_old_records (line 300), the start of
\* the connection-check thread (lines 319-323), start_polling (line 337)
MutMainSteps == <<"thread", "drain_call", "drain_return", "cleanup", "polling">>
MainSteps == <<"drain_call", "drain_return", "cleanup", "thread", "polling">>

MainStep == IF mainAt <= Len(MainSteps) THEN MainSteps[mainAt] ELSE "done"

\* the frame of the steps of the two threads
ThreadFrame ==
    UNCHANGED <<storeVars, backlog, drainVars, started, apiVars, histVars,
                collectorVars, polled>>

\* line 292: process_backlog_messages is called
MainCallsDrain ==
    /\ MainStep = "drain_call"
    /\ mainAt' = mainAt + 1
    /\ UNCHANGED <<monitorAt, is_recovering, lastProbe, monitorResult>>
    /\ ThreadFrame

\* lines 292-294: the startup drain returns
MainDrainReturns ==
    /\ MainStep = "drain_return"
    /\ mainAt' = mainAt + 1
    /\ UNCHANGED <<monitorAt, is_recovering, lastProbe, monitorResult>>
    /\ ThreadFrame

\* lines 303-308: the startup drain raises; the rest of the try block is
\* left and _reconnection_manager is set to None, so that check_connection
\* takes its else branch from its next round on
MainDrainRaises ==
    /\ MainStep = "drain_return"
    /\ mainAt' = mainAt + (IF mainAt < Len(MainSteps) /\ MainSteps[mainAt + 1] = "cleanup"
                           THEN 2 ELSE 1)
    /\ monitorAt' = IF monitorAt = "drain" THEN "drain" ELSE "disabled"
    /\ UNCHANGED <<is_recovering, lastProbe, monitorResult>>
    /\ ThreadFrame

\* line 300
MainCleanup ==
    /\ MainStep = "cleanup"
    /\ mainAt' = mainAt + 1
    /\ UNCHANGED <<monitorAt, is_recovering, lastProbe, monitorResult>>
    /\ ThreadFrame

\* lines 319-323: the thread is started if KEEP_ALIVE is set
StartConnectionThread ==
    /\ MainStep = "thread"
    /\ mainAt' = mainAt + 1
    /\ \E keep_alive \in BOOLEAN :
         monitorAt' = IF keep_alive /\ monitorAt = "off" THEN "sleep" ELSE monitorAt
    /\ UNCHANGED <<is_recovering, lastProbe, monitorResult>>
    /\ ThreadFrame

\* line 337
MainStartsPolling ==
    /\ MainStep = "polling"
    /\ mainAt' = mainAt + 1
    /\ UNCHANGED <<monitorAt, is_recovering, lastProbe, monitorResult>>
    /\ ThreadFrame

\* check_connection, lines 203-221, one round of its loop:
\* check_connection_and_recover returns at the interval gate (lines 379-380)
ThreadGateClosed ==
    /\ monitorAt = "sleep"
    /\ monitorResult' = "true"
    /\ UNCHANGED <<mainAt, monitorAt, is_recovering, lastProbe>>
    /\ ThreadFrame

\* lines 397-404: the probe raised
ThreadProbeFails ==
    /\ monitorAt = "sleep"
    /\ is_recovering' = TRUE
    /\ lastProbe' = "fail"
    /\ monitorResult' = "false"
    /\ UNCHANGED <<mainAt, monitorAt>>
    /\ ThreadFrame

\* lines 386-395, is_recovering False
ThreadProbeOkHealthy ==
    /\ monitorAt = "sleep"
    /\ ~is_recovering
    /\ lastProbe' = "ok"
    /\ monitorResult' = "true"
    /\ UNCHANGED <<mainAt, monitorAt, is_recovering>>
    /\ ThreadFrame

\* lines 389-392 and 415: the probe succeeded while recovering and
\* process_backlog_messages is called on the connection-check thread
ThreadCallsDrain ==
    /\ monitorAt = "sleep"
    /\ is_recovering
    /\ lastProbe' = "ok"
    /\ monitorAt' = "drain"
    /\ UNCHANGED <<mainAt, is_recovering, monitorResult>>
    /\ ThreadFrame

\* lines 393-395 and 415-418: the recovery drain returns or raises
ThreadDrainEnds ==
    /\ monitorAt = "drain"
    /\ monitorAt' = "sleep"
    /\ is_recovering' = FALSE
    /\ monitorResult' = "true"
    /\ UNCHANGED <<mainAt, lastProbe>>
    /\ ThreadFrame

NextThreads ==
    \/ MainCallsDrain
    \/ MainDrainReturns
    \/ MainDrainRaises
    \/ MainCleanup
    \/ StartConnectionThread
    \/ MainStartsPolling
    \/ ThreadGateClosed
    \/ ThreadProbeFails
    \/ ThreadProbeOkHealthy
    \/ ThreadCallsDrain
    \/ ThreadDrainEnds

SpecThreads == Init /\ [][NextThreads]_vars

(***************************************************************************)
(* The startup drain followed by live polling.  The Bot API keeps an       *)
(* update until get_updates is called with an offset above its id; the     *)
(* polling Updater, started without dropping pending updates, gets every   *)
(* update the transport still keeps and gives it to the live handlers,     *)
(* which do not read the offset store.                                     *)
(***************************************************************************)
\* the updates the get_updates calls fs of the drain have not confirmed
Unconfirmed(bl, fs) ==
    {u \in bl : \A i \in 1..Len(fs) : fs[i].offset = None \/ u >= fs[i].offset[1]}

\* main(), lines 330-347: start_polling(drop_pending_updates=False) after
\* the startup drain and cleanup
StartPolling ==
    /\ started
    /\ pc = "idle"
    /\ ended.how = "cleaned"
    /\ polled' = Unconfirmed(backlog, fetches)
    /\ UNCHANGED <<storeVars, backlog, drainVars, monitorVars, apiVars, histVars,
                   collectorVars, mainAt, monitorAt>>

NextPolling ==
    \/ StartupDrain
    \/ Fetch
    \/ SkipProcessed
    \/ Dispatch
    \/ MarkStep
    \/ UpdateStep
    \/ EndBatch
    \/ StartupCleanup
    \/ StartPolling
    \/ Crash

SpecPolling == Init /\ [][NextPolling]_vars

(***************************************************************************)
(* Properties of the drain pass and of the reconnection monitor (Spec)     *)
(***************************************************************************)
Returned == pc \in {"idle", "cleanup"} /\ ended.how = "returned"
Watermark == GetLastOffset(message_offset)
Dedup == Range(processed_messages)
LogIds(l) == {l[i].id : i \in 1..Len(l)}
\* the pass that has just returned was run over the backlog a completed pass left
SecondRun == Returned /\ prev.done

\* C1 (as claimed): a second run of process_backlog_messages over the same
\* backlog leaves the watermark rows and the dedup set as the first run left
\* them, invokes no handler and returns processed = 0, whatever the outcomes
\* of the handlers were.
C1_IdempotentReplay ==
    SecondRun =>
        /\ message_offset = prev.rows
        /\ processed_messages = prev.dedup
        /\ InvokedIds(log) = {}
        /\ ended.processed = 0

\* C1 (amended): the same, provided no dispatch failed in the first run: a
\* second run that follows it with no other write to the store in between
\* leaves the store as it was, dispatches nothing and returns processed = 0.
C1_IdempotentReplayAmended ==
    (SecondRun /\ prev.failed = {}) =>
        /\ message_offset = prev.rows
        /\ processed_messages = prev.dedup
        /\ log = <<>>
        /\ ended.processed = 0

\* a second run after a first run that handled something, finding nothing to do
C1_Witness ==
    /\ SecondRun
    /\ prev.failed = {}
    /\ Cardinality(prev.handled) >= 2
    /\ fetches # <<>>
    /\ log = <<>>

\* C2: in a pass in which every fetched message is dispatched and the handler
\* raises for exactly one of them, k, the pass returns (n-1, 1), k is not in
\* the dedup set afterwards and every other message of the pass is.
C2_PoisonIsolation ==
    (Returned /\ skipped = {} /\ Cardinality(RaisedIds(log)) = 1
              /\ FailedIds(log) = RaisedIds(log)) =>
        /\ ended.processed = Len(log) - 1
        /\ ended.failed = 1
        /\ \A k \in RaisedIds(log) : k \notin Dedup
        /\ \A m \in LogIds(log) \ RaisedIds(log) : m \in Dedup

\* the poison message is followed by a message that is handled
C2_Witness ==
    /\ Returned /\ skipped = {} /\ Cardinality(RaisedIds(log)) = 1
    /\ FailedIds(log) = RaisedIds(log)
    /\ Len(log) = MaxId
    /\ \E k \in RaisedIds(log) : \E m \in OkIds(log) : m > k

\* C3 (as claimed): a message whose handler raised in a pass is dispatched
\* again by the next pass over the same backlog.
C3_FailedRedispatched ==
    SecondRun => \A k \in prev.raised : k \in LogIds(log)

C5_DrainTerminates == Len(fetches) <= Cardinality(backlog) + 1

\* C8: a pass started on an empty offset store issues its first fetch with
\* offset None; if every handler succeeds it returns (n, 0) for a backlog of n
\* messages, leaves the watermark at the largest id, and issues exactly
\* n \div batch_size + 1 fetches (it stops at the first short batch).
C8_ColdStart ==
    (prev.rows = <<>> /\ prev.dedup = <<>> /\ passNo >= 1) =>
        /\ fetches # <<>> => fetches[1].offset = None
        /\ (Returned /\ FailedIds(log) = {}) =>
              /\ ended.processed = Cardinality(backlog)
              /\ ended.failed = 0
              /\ Watermark = (IF backlog = {} THEN None ELSE Some(SetMax(backlog)))
              /\ Len(fetches) = (Cardinality(backlog) \div BatchSize) + 1
              /\ \A i \in 1..Len(fetches) :
                    fetches[i].n = (IF i < Len(fetches) THEN BatchSize
                                    ELSE Cardinality(backlog) % BatchSize)

\* a full batch followed by a short one: two fetches
C8_Witness ==
    /\ Returned /\ prev.rows = <<>> /\ prev.dedup = <<>> /\ FailedIds(log) = {}
    /\ Cardinality(backlog) = BatchSize + 1
    /\ Len(fetches) = 2
    /\ fetches[1].n = BatchSize /\ fetches[2].n = 1

\* C9: the monitor starts a drain exactly on a successful probe that follows a
\* failed one, and is_recovering is False when that call returns.
C9_RecoveryOncePerOutage ==
    [][/\ (passNo' = passNo + 1 /\ caller' = "monitor")
            <=> (lastProbe = "fail" /\ lastProbe' = "ok")
       /\ (caller = "monitor" /\ pc' = "idle" /\ ended'.how = "returned")
            => (~is_recovering' /\ monitorResult' = "true")]_vars

\* two failed probes, then the recovery drain has run and returned
C9_Witness ==
    /\ Returned /\ ended.by = "monitor"
    /\ lastProbe = "ok" /\ ~is_recovering /\ monitorResult = "true"
    /\ log # <<>>

\* C15: within one pass the dispatches are in strictly ascending update_id
\* order, across all batches of the pass.
C15_AscendingWithinPass ==
    \A i \in 1..Len(log) : \A j \in 1..Len(log) : i < j => log[i].id < log[j].id

\* a pass that dispatched every message of a backlog spanning two batches,
\* one of them failing
C15_Witness ==
    /\ Returned
    /\ Len(log) = MaxId
    /\ Len(fetches) >= 2
    /\ FailedIds(log) # {}

\* the watermark the earlier passes left when the current pass began
PrevWatermark == GetLastOffset(prev.rows)

FetchedIds ==
    UNION {Range(GetPendingUpdates(backlog, fetches[i].offset, BatchSize)) :
              i \in 1..Len(fetches)}
NoHandlerIds(l) == {l[i].id : i \in {j \in 1..Len(l) : l[j].outcome = "nohandler"}}

\* C20: an update for whose kind the handler table holds no callable is
\* counted as failed once, is not marked processed, is not written as a
\* watermark, and does not stop the pass: when the pass returns, every update
\* it fetched has been dispatched or skipped as already processed.
C20_MissingHandler ==
    /\ \A k \in NoHandlerIds(log) :
          /\ k \notin Dedup
          /\ \A i \in 1..Len(message_offset) : message_offset[i].val # k
    /\ pc \in {"fetch", "item", "mark", "update"} =>
          failed_count = Cardinality(FailedIds(log))
    /\ Returned =>
          /\ ended.failed = Cardinality(FailedIds(log))
          /\ ended.processed = Cardinality(OkIds(log))
          /\ NoHandlerIds(log) # {} => FetchedIds = LogIds(log) \cup skipped

\* an update without handler is followed, in the same batch, by one that is
\* handled
C20_Witness ==
    /\ Returned
    /\ \E i \in 1..Len(log) :
          /\ log[i].outcome = "nohandler"
          /\ i < Len(log)
          /\ log[i + 1].outcome = "ok"
          /\ log[i + 1].id \in Dedup
          /\ fetches[1].n = BatchSize
          /\ i < BatchSize


\* the first fetch of the current pass was made without an offset although
\* the store held a watermark: get_last_offset failed
ReadFailed == fetches # <<>> /\ fetches[1].offset = None /\ PrevWatermark # None
\* ids the current pass dispatched although their row was in the dedup table
\* when the pass began
Redispatched == LogIds(log) \cap Range(prev.dedup)

\* C18: over a failing offset store a pass begins its fetches either at the
\* watermark's successor or, when the read fails, without an offset; it
\* skips only updates whose row really is in the dedup table; and when it
\* returns, every pending update above the watermark the pass began with has
\* been dispatched by it or has its row in the dedup table.  A failed access
\* makes the pass dispatch again, never pass over a pending update.
C18_StorageErrorsReprocess ==
    /\ fetches # <<>> => fetches[1].offset \in {None, FirstOffset(PrevWatermark)}
    /\ skipped \subseteq Range(prev.dedup) \cup OkIds(log)
    /\ Returned =>
          \A k \in backlog :
             \/ k \in LogIds(log)
             \/ k \in Dedup
             \/ PrevWatermark # None /\ k <= PrevWatermark[1]
\* a pass whose get_last_offset failed has returned after dispatching again
\* an update that was already recorded as processed
C18_Witness == Returned /\ ReadFailed /\ Redispatched # {}

CountOk(l) == Cardinality({i \in 1..Len(l) : l[i].outcome = "ok"})
\* the watermark a store holds that began at watermark w and then recorded ids
WatermarkAfter(w, ids) ==
    IF ids = {} THEN w
    ELSE IF w = None THEN Some(SetMax(ids)) ELSE Some(SetMax(ids \cup {w[1]}))

\* C19: a fetch on which get_updates raises is made once and ends the pass:
\* the pass returns normally with the counts of the dispatches made before
\* that fetch, the fetch writes nothing to the store, and the store holds
\* what it held when the pass began plus the updates the pass handled.
C19_FailSoftFetch ==
    [][FetchFails =>
          /\ Len(fetches) < MaxFetches =>
                /\ Len(fetches') = Len(fetches) + 1
                /\ fetches'[Len(fetches')].n = 0
          /\ pc' \in {"idle", "cleanup"}
          /\ ended'.how = "returned"
          /\ ended'.processed = CountOk(log)
          /\ ended'.failed = Len(log) - CountOk(log)
          /\ storeVars' = storeVars
          /\ Range(processed_messages') = Range(prev.dedup) \cup OkIds(log)
          /\ GetLastOffset(message_offset') = WatermarkAfter(PrevWatermark, OkIds(log))
    ]_vars
\* a pass has returned after handling an update while the transport still
\* holds an update above every update it fetched: its last fetch failed
C19_Witness ==
    /\ Returned
    /\ OkIds(log) # {}
    /\ fetches[Len(fetches)].n = 0
    /\ \E k \in backlog : \A j \in LogIds(log) \cup skipped : k > j

\* C21: the step in which a recovery drain raises leaves the monitor
\* healthy: the call returns True with is_recovering False.
C21_FailingDrainStillHealthy ==
    [][(ended'.how = "raised" /\ ended.how # "raised") =>
          /\ lastProbe = "ok"
          /\ is_recovering
          /\ ~is_recovering'
          /\ monitorResult' = "true"
          /\ pc' = "idle"
    ]_vars
\* a recovery drain raised after it had handled an update
C21_Witness ==
    /\ ended.how = "raised"
    /\ pc = "idle"
    /\ OkIds(log) # {}
    /\ ~is_recovering
    /\ monitorResult = "true"
\* C22 (as claimed): whenever check_connection_and_recover has returned True
\* the monitor is healthy: is_recovering is False.
C22_TrueOnlyWhenHealthy ==
    (started /\ pc = "idle" /\ monitorResult = "true") => ~is_recovering
\* C23: add_message on a message without a media_group_id returns False and
\* leaves the live table, every timer and the deliveries as they were.
C23_UngroupedChangesNothing ==
    [][AddMessageUngrouped =>
          /\ addResult' = "false"
          /\ UNCHANGED <<groups, timers, delivered>>
    ]_vars
\* add_message has returned False while a buffer was waiting on its timer
C23_Witness ==
    /\ addResult = "false"
    /\ \E g \in DOMAIN groups : timers[groups[g].timer].state = "armed"
\* C24 (as claimed): every step that writes a watermark row writes the id of
\* the update dispatched last, whose handler returned and whose row is
\* already in the dedup table; the id was not skipped by the pass.
C24_WatermarkBehindHandled ==
    [][Len(message_offset') = Len(message_offset) + 1 =>
          LET v == message_offset'[Len(message_offset')].val IN
          /\ log # <<>>
          /\ log[Len(log)] = [id |-> v, outcome |-> "ok"]
          /\ v \in Dedup
          /\ v \notin skipped
          /\ v \notin FailedIds(log)
    ]_vars
\* C24 (amended): every step that writes a watermark row writes the id of the
\* update dispatched last, whose handler returned, after the call of
\* mark_message_processed for it has been made; the id was neither skipped
\* by the pass nor did its handling fail.  Its row is in the dedup table
\* whenever the step before was a mark that the store accepted.  A crash may
\* come between any two steps, so the store a crash leaves holds only such
\* rows.
C24_WatermarkBehindDispatched ==
    [][/\ Len(message_offset') = Len(message_offset) + 1 =>
            LET v == message_offset'[Len(message_offset')].val IN
            /\ pc = "update"
            /\ log # <<>>
            /\ log[Len(log)] = [id |-> v, outcome |-> "ok"]
            /\ v \notin skipped
            /\ v \notin FailedIds(log)
       /\ MarkStep => updates[idx] \in Range(processed_messages')
    ]_vars
\* a crash has ended a pass that had written a watermark row and had met a
\* message whose handling failed
C24_Witness ==
    /\ ended.how = "crashed"
    /\ message_offset # <<>>
    /\ FailedIds(log) # {}
    /\ \A i \in 1..Len(message_offset) : message_offset[i].val \in OkIds(log)
\* C25: an add_message that finds no buffer of its group id in the live
\* table, also when a buffer of that id was flushed before, creates a buffer
\* that holds the new message only, keeps that message's update and waits on
\* a timer started by this call; and no flush hands over a message that an
\* earlier flush has handed over.
C25_FlushedIsTerminal ==
    [][/\ \A g \in GroupIds :
            (g \notin DOMAIN groups /\ g \in DOMAIN groups') =>
               LET b == groups'[g] IN
               /\ Len(b.messages) = 1
               /\ b.update = b.messages[1]
               /\ b.messages[1] \notin DeliveredIds
               /\ b.timer = Len(timers')
               /\ Len(timers') = Len(timers) + 1
               /\ timers'[b.timer].state = "armed"
               /\ timers'[b.timer].wait = MEDIA_GROUP_TIMEOUT
       /\ Len(delivered') = Len(delivered) + 1 =>
            Range(delivered'[Len(delivered')].messages) \cap DeliveredIds = {}
    ]_vars
\* a buffer of a group id was flushed and a buffer of the same id, created
\* by a later add_message, is live
C25_Witness ==
    \E i \in 1..Len(delivered) :
        LET g == delivered[i].group IN
        /\ g \in DOMAIN groups
        /\ Len(groups[g].messages) = 1
        /\ groups[g].update = groups[g].messages[1]
        /\ groups[g].created > delivered[i].created
\* C26: a flush whose callback raises ends like one whose callback returns:
\* the live table and every other timer are as they were, the timer of the
\* flush is done and holds no buffer, so that the buffer is neither put back
\* nor handed to the callback again; no two invocations are for one buffer.
C26_CallbackFailureContained ==
    [][(Len(delivered') = Len(delivered) + 1 /\ delivered'[Len(delivered')].raised) =>
          LET changed == {tid \in 1..Len(timers) : timers'[tid] # timers[tid]} IN
          /\ groups' = groups
          /\ Len(timers') = Len(timers)
          /\ Cardinality(changed) = 1
          /\ \A tid \in changed :
                /\ timers[tid].state = "popped"
                /\ timers'[tid].state = "done"
                /\ timers'[tid].batch = NoBatch
                /\ delivered'[Len(delivered')].created = timers[tid].batch[1].created
          /\ \A i \in 1..Len(delivered) :
                delivered[i].created # delivered'[Len(delivered')].created
    ]_vars
\* the callback raised for a buffer while the buffer of another group was
\* live, and every timer of the first group has ended
C26_Witness ==
    \E i \in 1..Len(delivered) :
        /\ delivered[i].raised
        /\ delivered[i].group \notin DOMAIN groups
        /\ \E g \in DOMAIN groups : g # delivered[i].group
        /\ \A tid \in 1..Len(timers) :
              timers[tid].group = delivered[i].group => timers[tid].state \in {"done", "cancelled"}
\* executions of process_backlog_messages in progress
DrainsInProgress ==
    (IF MainStep = "drain_return" THEN 1 ELSE 0) + (IF monitorAt = "drain" THEN 1 ELSE 0)

\* C27: at most one execution of process_backlog_messages is in progress,
\* and while the connection-check thread runs, the one thread that makes
\* recovery drains, the main thread is past its startup drain and cleanup.
C27_DrainsSerialized ==
    /\ DrainsInProgress <= 1
    /\ monitorAt \in {"sleep", "drain"} =>
          MainStep \notin {"drain_call", "drain_return", "cleanup"}
\* a recovery drain is in progress on the connection-check thread
C27_Witness ==
    /\ monitorAt = "drain"
    /\ MainStep \in {"polling", "done"}
    /\ DrainsInProgress = 1
\* every live buffer is waiting on the timer its last add_message started
LiveTimerStarted ==
    \A g \in DOMAIN groups :
        /\ groups[g].timer \in 1..Len(timers)
        /\ timers[groups[g].timer].group = g
        /\ timers[groups[g].timer].state \in {"armed", "running"}
\* the live table is empty, no flush is under way and every buffer that was
\* created has been handed to the callback
AllFlushed ==
    /\ DOMAIN groups = {}
    /\ Quiescent
    /\ \A a \in 1..Len(timers) : InDelivered(a) = 1

\* C28: at every moment each live buffer has a timer that was started and
\* is not cancelled, and, timers firing, once arrivals stop every buffer is
\* removed from the live table and handed to the callback for good.
C28_EveryBufferFlushed ==
    /\ []LiveTimerStarted
    /\ <>[]AllFlushed
\* all arrivals have been made, two of them into one buffer, and the table
\* is empty after the flushes
C28_Witness ==
    /\ Len(timers) = MaxArrivals
    /\ DOMAIN groups = {}
    /\ Quiescent
    /\ \E i \in 1..Len(delivered) : Len(delivered[i].messages) >= 2
\* C29 (as claimed): no update that the startup drain handled successfully
\* is given to the live handlers when polling starts.
C29_NoDoubleHandling == polled \cap OkIds(log) = {}
\* rows the current pass has added to the dedup table
AddedToDedup == Dedup \ Range(prev.dedup)

====
